---------------------------- MODULE Spec2Model ----------------------------
(***************************************************************************)
(* A model of apodmgr: the APOD record (apod.py), the remote source        *)
(* client (the static fetch_* methods of APOD) and the archive             *)
(* (ManagerConfiguration in mgrcfg.py), which mediates between the remote  *)
(* API and two directories of flat files, and the command line             *)
(* (__main__.py), which loads the configuration and runs one command.      *)
(*                                                                         *)
(* Python strings that the code inspects character by character (dates,    *)
(* file names, URLs) are sequences of one-character strings, so that the   *)
(* regular expressions and the rindex/slice of the code are computed, not  *)
(* assumed.  None is the one-element sequence NoneS, which no string is.    *)
(***************************************************************************)
EXTENDS Integers, Sequences, FiniteSets, TLC

VARIABLES
    records,    \* the records directory (apods_path): file name -> content
    media,      \* the media directory (apods_media_path): file name -> content
    dirs,       \* the directories that exist, of the records and the media directory
    last        \* the call of the archive, or the run of main, that completed last

vars == <<records, media, dirs, last>>

---------------------------------------------------------------------------
(* Bounds of the model *)

\* the longest array the remote API returns to a random or range request
MaxBatch == 2

---------------------------------------------------------------------------
(* Strings *)

\* Python's None
NoneS == <<"<None>">>

\* JSON's null
NullS == <<"<null>">>

Digits == {"0", "1", "2", "3", "4", "5", "6", "7", "8", "9"}

\* str.rindex(c): the last index (1-based) of c in s, 0 when there is none
\* (Python raises ValueError there)
RIndex(s, c) ==
    LET hits == {i \in 1..Len(s) : s[i] = c}
    IN  IF hits = {} THEN 0 ELSE CHOOSE i \in hits : \A j \in hits : j <= i

\* s[k + 1:] where k is the 0-based index of the character that is i-th
\* counting from 1: the characters after the i-th
Tail0(s, i) == SubSeq(s, i + 1, Len(s))

\* truthiness of an Optional[str]
Truthy(s) == s # NoneS /\ s # <<>>

---------------------------------------------------------------------------
(* apod.py: the record *)

\* re.match(APOD.APOD_DATE_FORMAT_RE, s): the pattern is matched at the start
\* of s and nothing anchors its end
APOD_DATE_FORMAT_RE(s) ==
    /\ Len(s) >= 10
    /\ \A i \in {1, 2, 3, 4, 6, 7, 9, 10} : s[i] \in Digits
    /\ s[5] = "-"
    /\ s[8] = "-"

RequiredFields == {"date", "title", "explanation", "url", "media_type"}

OptionalFields ==
    {"hdurl", "concepts", "thumbnail_url", "copyright", "resources", "service_version"}

Fields == RequiredFields \cup OptionalFields

\* the dataclass default of an optional field: None
FieldDefault(f) == NoneS

\* the generated __init__: the keyword arguments must name fields only and
\* must give every field that has no default (TypeError otherwise)
InitAccepts(data) ==
    /\ DOMAIN data \subseteq Fields
    /\ RequiredFields \subseteq DOMAIN data

\* the object the generated __init__ builds before __post_init__ runs
InitFields(data) ==
    [f \in Fields |-> IF f \in DOMAIN data THEN data[f] ELSE FieldDefault(f)]

\* APOD._validate_data: TRUE when it raises no ValueError
ValidateData(self) ==
    /\ APOD_DATE_FORMAT_RE(self.date)
    /\ self.title # NoneS /\ self.title # <<>>
    /\ ~(self.url = NoneS /\ self.hdurl = NoneS)

\* APOD(**data): the outcome and, when it is "ok", the record
NewAPOD(data) ==
    IF ~InitAccepts(data) THEN [outcome |-> "TypeError", apod |-> NoneS]
    ELSE IF ~ValidateData(InitFields(data))
         THEN [outcome |-> "ValueError", apod |-> NoneS]
         ELSE [outcome |-> "ok", apod |-> InitFields(data)]

\* APOD.__eq__ between two records
ApodEq(a, b) == a.date = b.date

\* APOD.best_url
BestUrl(self) == IF Truthy(self.hdurl) THEN self.hdurl ELSE self.url

\* APOD.is_image
IsImage(self) == self.media_type = <<"i", "m", "a", "g", "e">>

\* the longest extension media_extension keeps
ExtMax == 4

\* APOD.media_extension, for a best_url that holds a "."
MediaExtension(self) ==
    LET url == BestUrl(self)
        ext == Tail0(url, RIndex(url, "."))
    IN  IF Len(ext) > ExtMax THEN <<"j", "p", "g">> ELSE ext

\* whether media_extension raises: best_url is None or holds no "."
MediaExtensionRaises(self) ==
    BestUrl(self) = NoneS \/ RIndex(BestUrl(self), ".") = 0

---------------------------------------------------------------------------
(* The persisted form of a record: json.dumps(asdict(apod)) and json.loads *)

\* the dataclass's fields in declaration order, the order asdict keeps
FieldOrder ==
    <<"date", "title", "explanation", "url", "media_type", "hdurl", "concepts",
      "thumbnail_url", "copyright", "resources", "service_version">>

\* a Python value as JSON: None becomes null
ToJson(v) == IF v = NoneS THEN NullS ELSE v

\* json.loads leaving null as it is
FromJsonKeepingNull(v) == v

\* a JSON value as Python: null becomes None
FromJson(v) == IF v = NullS THEN NoneS ELSE v

\* json.dumps(asdict(apod), indent=4): the document, as its members in order
Dumps(apod) ==
    [i \in 1..Len(FieldOrder) |-> <<FieldOrder[i], ToJson(apod[FieldOrder[i]])>>]

\* json.loads(text): the dict of the document's members (of a repeated key,
\* the last member)
Loads(text) ==
    LET keys == {text[i][1] : i \in 1..Len(text)}
        at(k) == CHOOSE i \in 1..Len(text) :
                    /\ text[i][1] = k
                    /\ \A j \in 1..Len(text) : text[j][1] = k => j <= i
    IN  [k \in keys |-> FromJson(text[at(k)][2])]

---------------------------------------------------------------------------
(* Inputs: the dates, URLs and response bodies the model draws from *)

D1 == <<"2", "0", "2", "4", "-", "0", "1", "-", "0", "1">>

D2 == <<"2", "0", "2", "4", "-", "0", "1", "-", "0", "2">>

\* what the caller's clock can say and what a caller passes as a canonical date
Dates == {D1, D2}

\* a date argument that the date pattern rejects
BadDate == <<"J", "a", "n", "1">>

Title == <<"T">>

Explanation == <<"E">>

Image == <<"i", "m", "a", "g", "e">>

Video == <<"v", "i", "d", "e", "o">>

UrlJpg == <<"a", ".", "j", "p", "g">>

UrlPng == <<"b", ".", "p", "n", "g">>

\* an embedded player's address: what follows its last "." is no extension
UrlVideo == <<"y", ".", "c", "o", "m", "/", "v">>

\* a response member with both urls
BodyHd(d) ==
    [date |-> d, title |-> Title, explanation |-> Explanation, url |-> UrlJpg,
     media_type |-> Image, hdurl |-> UrlPng]

\* a response member without the hdurl key
BodySd(d) ==
    [date |-> d, title |-> Title, explanation |-> Explanation, url |-> UrlJpg,
     media_type |-> Image]

\* a response member for a video
BodyVideo(d) ==
    [date |-> d, title |-> Title, explanation |-> Explanation, url |-> UrlVideo,
     media_type |-> Video]

\* a response member _validate_data rejects: its title is empty
BodyNoTitle ==
    [date |-> D1, title |-> <<>>, explanation |-> Explanation, url |-> UrlJpg,
     media_type |-> Image]

\* a response member the generated __init__ rejects: a required key is missing
BodyNoExplanation ==
    [date |-> D2, title |-> Title, url |-> UrlJpg, media_type |-> Image]

\* the response members the remote API draws from
Bodies == {BodyHd(D1), BodySd(D1), BodyVideo(D2), BodyNoTitle, BodyNoExplanation}

\* the members of the arrays the remote API answers a random or range request with
BatchBodies == {BodyHd(D1), BodySd(D1), BodyVideo(D2), BodyNoTitle}

\* the records a caller passes to save_media_for
Apods == {NewAPOD(b).apod : b \in UNION {{BodyHd(d), BodySd(d), BodyVideo(d)} : d \in Dates}}

\* the remote API's answer to a single-date request: a status that is not ok, or
\* a JSON object
SingleResponses ==
    {[ok |-> FALSE, json |-> NullS]} \cup {[ok |-> TRUE, json |-> b] : b \in Bodies}

\* the arrays of at most n members
RECURSIVE Arrays(_)
Arrays(n) ==
    IF n = 0 THEN {<<>>}
    ELSE Arrays(n - 1) \cup
         {Append(a, b) : a \in {x \in Arrays(n - 1) : Len(x) = n - 1}, b \in BatchBodies}

\* the remote API's answer to a random or range request
BatchResponses ==
    {[ok |-> FALSE, json |-> NullS]} \cup {[ok |-> TRUE, json |-> a] : a \in Arrays(MaxBatch)}

\* the media host's answer to the GET of a URL
MediaResponses(url) == {[ok |-> FALSE, content |-> <<>>], [ok |-> TRUE, content |-> url]}

---------------------------------------------------------------------------
(* Directories *)

\* open(dir / name, 'w').write(content): creates the file or replaces it
WriteFile(dir, name, content) ==
    [n \in (DOMAIN dir) \cup {name} |-> IF n = name THEN content ELSE dir[n]]

\* os.listdir(dir), whose order nothing here depends on
ListDir(dir) == DOMAIN dir

DotJson == <<".", "j", "s", "o", "n">>

\* the content of a file the archive did not write
ForeignContent == <<"<bytes>">>

---------------------------------------------------------------------------
(* apod.py: the remote source client.  Each operator gives the outcome ("ok" *)
(* or the exception raised), the value returned and the number of requests *)
(* sent to the API.                                                        *)

Raised(exc, n) == [outcome |-> exc, ret |-> NoneS, api |-> n]

\* the date a request carries: datetime.now() formatted when the argument is None
DateOrNow(date, now) == IF date = NoneS THEN now ELSE date

\* the count limits of APOD.fetch_random
MinCount == 1

MaxCount == 100

\* APOD.fetch_single(api_key, date) when the clock says now and the API
\* answers resp
ApodFetchSingle(date, now, resp) ==
    IF ~APOD_DATE_FORMAT_RE(DateOrNow(date, now)) THEN Raised("ValueError", 0)
    ELSE IF ~resp.ok THEN Raised("HTTPError", 1)
    ELSE LET new == NewAPOD(resp.json)
         IN  [outcome |-> new.outcome, ret |-> new.apod, api |-> 1]

\* [APOD(**data) for data in response.json()]: the first member that raises
\* ends the comprehension
ApodList(json) ==
    LET bad == {i \in 1..Len(json) : NewAPOD(json[i]).outcome # "ok"}
    IN  IF bad = {}
        THEN [outcome |-> "ok", ret |-> [i \in 1..Len(json) |-> NewAPOD(json[i]).apod],
              api |-> 1]
        ELSE Raised(NewAPOD(json[CHOOSE i \in bad : \A j \in bad : i <= j]).outcome, 1)

\* the guard on count with its lower limit excluded
CountInRangeExclusive(count) == MinCount < count /\ count <= MaxCount

\* the guard of APOD.fetch_random on count
CountInRange(count) == MinCount <= count /\ count <= MaxCount

\* APOD.fetch_random(api_key, count)
ApodFetchRandom(count, resp) ==
    IF ~CountInRange(count) THEN Raised("ValueError", 0)
    ELSE IF ~resp.ok THEN Raised("HTTPError", 1)
    ELSE ApodList(resp.json)

\* APOD.fetch_range(api_key, start_date, end_date)
ApodFetchRange(start_date, end_date, now, resp) ==
    IF ~APOD_DATE_FORMAT_RE(DateOrNow(start_date, now)) THEN Raised("ValueError", 0)
    ELSE IF ~APOD_DATE_FORMAT_RE(DateOrNow(end_date, now)) THEN Raised("ValueError", 0)
    ELSE IF ~resp.ok THEN Raised("HTTPError", 1)
    ELSE ApodList(resp.json)

---------------------------------------------------------------------------
(* mgrcfg.py: the archive.  Each operator gives the directory it leaves    *)
(* besides the outcome, the value returned and the requests sent.          *)

\* store_apod writing under another directory: the records directory is left
\* as it was
StoreApodElsewhere(recs, apod) == recs

\* store_apod opening the file for exclusive creation: an existing file is kept
StoreApodKeeping(recs, apod) ==
    IF (apod.date \o <<".", "j", "s", "o", "n">>) \in DOMAIN recs THEN recs
    ELSE WriteFile(recs, apod.date \o <<".", "j", "s", "o", "n">>, Dumps(apod))

\* ManagerConfiguration.store_apod: the records directory it leaves
StoreApod(recs, apod) == WriteFile(recs, apod.date \o DotJson, Dumps(apod))

\* store_apods walking the list from its end
RECURSIVE StoreApodsReversed(_, _)
StoreApodsReversed(recs, apods) ==
    IF apods = <<>> THEN recs
    ELSE StoreApodsReversed(
            WriteFile(recs, apods[Len(apods)].date \o <<".", "j", "s", "o", "n">>,
                      Dumps(apods[Len(apods)])),
            SubSeq(apods, 1, Len(apods) - 1))

\* ManagerConfiguration.store_apods: store_apod on each record in order
RECURSIVE StoreApods(_, _)
StoreApods(recs, apods) ==
    IF apods = <<>> THEN recs
    ELSE StoreApods(StoreApod(recs, Head(apods)), Tail(apods))

\* the file name pattern of stored_apods matched at the start of a name: the
\* date pattern, any one character, then "json"
StoredApodsPattern(file) ==
    /\ APOD_DATE_FORMAT_RE(file)
    /\ Len(file) >= 15
    /\ file[11] # "\n"
    /\ SubSeq(file, 12, 15) = <<"j", "s", "o", "n">>

\* ManagerConfiguration.stored_apods: the names it yields
StoredApods(recs) == {file \in ListDir(recs) : StoredApodsPattern(file)}

\* the file name pattern of stored_media matched at the start of a name
StoredMediaPattern(file) ==
    /\ APOD_DATE_FORMAT_RE(file)
    /\ Len(file) >= 14
    /\ file[11] # "\n"
    /\ SubSeq(file, 12, 14) \in
          {<<"j", "p", "g">>, <<"p", "n", "g">>, <<"m", "p", "4">>}

\* the directory ManagerConfiguration.stored_media lists
StoredMediaDir(recs, med) == recs

\* ManagerConfiguration.stored_media: the names it yields
StoredMedia(recs, med) ==
    {file \in ListDir(StoredMediaDir(recs, med)) : StoredMediaPattern(file)}

\* stored_apod_file taking any file whose name starts with the date
StoredApodFileByPrefix(recs, date) ==
    LET found == {file \in DOMAIN recs :
                    Len(file) >= Len(date) /\ SubSeq(file, 1, Len(date)) = date}
    IN  IF found = {} THEN <<"<None>">> ELSE CHOOSE file \in found : TRUE

\* ManagerConfiguration.stored_apod_file for a date the pattern accepts: the
\* file name, or None
StoredApodFile(recs, date) ==
    IF (date \o DotJson) \in ListDir(recs) THEN date \o DotJson ELSE NoneS

\* ManagerConfiguration.stored_apod_file(date) for a str date: ValueError for a
\* date the pattern rejects, the lookup otherwise
StoredApodFileResult(recs, date) ==
    IF ~APOD_DATE_FORMAT_RE(date) THEN Raised("ValueError", 0)
    ELSE [outcome |-> "ok", ret |-> StoredApodFile(recs, date), api |-> 0]

\* fetch_single without its cache test
CacheHitNever(recs, date) == FALSE

\* the cache test of ManagerConfiguration.fetch_single
CacheHit(recs, date) == date # NoneS /\ StoredApodFile(recs, date) # NoneS

\* fetch_single naming the file it writes after the date that was asked for
FetchSingleStoringAsAsked(recs, date, now, resp) ==
    IF date # <<"<None>">> /\ ~APOD_DATE_FORMAT_RE(date)
    THEN [records |-> recs] @@ Raised("ValueError", 0)
    ELSE IF CacheHit(recs, date)
    THEN LET new == NewAPOD(Loads(recs[StoredApodFile(recs, date)]))
         IN  IF recs[StoredApodFile(recs, date)] = <<"<bytes>">>
             THEN [records |-> recs] @@ Raised("ValueError", 0)
             ELSE [records |-> recs, outcome |-> new.outcome, ret |-> new.apod, api |-> 0]
    ELSE LET got == ApodFetchSingle(date, now, resp)
         IN  IF got.outcome = "ok"
             THEN [records |-> WriteFile(recs, DateOrNow(date, now) \o DotJson,
                                         Dumps(got.ret))] @@ got
             ELSE [records |-> recs] @@ got

\* ManagerConfiguration.fetch_single(date)
FetchSingleResult(recs, date, now, resp) ==
    IF date # NoneS /\ ~APOD_DATE_FORMAT_RE(date)
    THEN [records |-> recs] @@ Raised("ValueError", 0)
    ELSE IF CacheHit(recs, date)
    THEN LET text == recs[StoredApodFile(recs, date)]
             new == NewAPOD(Loads(text))
         IN  IF text = ForeignContent
             THEN [records |-> recs] @@ Raised("ValueError", 0)
             ELSE [records |-> recs, outcome |-> new.outcome, ret |-> new.apod, api |-> 0]
    ELSE LET got == ApodFetchSingle(date, now, resp)
         IN  IF got.outcome = "ok"
             THEN [records |-> StoreApod(recs, got.ret)] @@ got
             ELSE [records |-> recs] @@ got

\* ManagerConfiguration.fetch_random(count)
FetchRandomResult(recs, count, resp) ==
    LET got == ApodFetchRandom(count, resp)
    IN  IF got.outcome = "ok"
        THEN [records |-> StoreApods(recs, got.ret)] @@ got
        ELSE [records |-> recs] @@ got

\* fetch_range storing each record as soon as it is built, so that the records
\* before a member that fails are kept
FetchRangeStoringEagerly(recs, start_date, end_date, now, resp) ==
    LET got == ApodFetchRange(start_date, end_date, now, resp)
        good == IF got.api = 1 /\ resp.ok
                THEN {i \in 0..Len(resp.json) :
                        \A j \in 1..i : NewAPOD(resp.json[j]).outcome = "ok"}
                ELSE {0}
        n == CHOOSE i \in good : \A j \in good : j <= i
    IN  [records |-> StoreApods(recs, [i \in 1..n |-> NewAPOD(resp.json[i]).apod])] @@ got

\* ManagerConfiguration.fetch_range(start_date, end_date)
FetchRangeResult(recs, start_date, end_date, now, resp) ==
    LET got == ApodFetchRange(start_date, end_date, now, resp)
    IN  IF got.outcome = "ok"
        THEN [records |-> StoreApods(recs, got.ret)] @@ got
        ELSE [records |-> recs] @@ got

\* the destination file name of save_media_for
MediaFileName(apod) == apod.date \o <<".">> \o MediaExtension(apod)

\* save_media_for without the test for an existing file
SaveMediaForAlways(med, apod, resp) ==
    IF ~IsImage(apod)
    THEN [media |-> med, outcome |-> "TypeError", get |-> 0]
    ELSE IF ~resp.ok
    THEN [media |-> med, outcome |-> "HTTPError", get |-> 1]
    ELSE [media |-> WriteFile(med, MediaFileName(apod), resp.content),
          outcome |-> "ok", get |-> 1]

\* save_media_for without the is_image test
SaveMediaForAnyType(med, apod, resp) ==
    IF MediaFileName(apod) \in ListDir(med)
    THEN [media |-> med, outcome |-> "ok", get |-> 0]
    ELSE IF ~resp.ok
    THEN [media |-> med, outcome |-> "HTTPError", get |-> 1]
    ELSE [media |-> WriteFile(med, MediaFileName(apod), resp.content),
          outcome |-> "ok", get |-> 1]

\* ManagerConfiguration.save_media_for(apod): the media directory it leaves, the
\* outcome and the number of GETs of the media URL
SaveMediaForResult(med, apod, resp) ==
    IF MediaExtensionRaises(apod)
    THEN [media |-> med,
          outcome |-> IF BestUrl(apod) = NoneS THEN "AttributeError" ELSE "ValueError",
          get |-> 0]
    ELSE IF MediaFileName(apod) \in ListDir(med)
    THEN [media |-> med, outcome |-> "ok", get |-> 0]
    ELSE IF ~IsImage(apod)
    THEN [media |-> med, outcome |-> "TypeError", get |-> 0]
    ELSE IF ~resp.ok
    THEN [media |-> med, outcome |-> "HTTPError", get |-> 1]
    ELSE [media |-> WriteFile(med, MediaFileName(apod), resp.content),
          outcome |-> "ok", get |-> 1]

---------------------------------------------------------------------------
(* The archive as a state machine: one action per public operation, the    *)
(* remote's answers and the clock drawn as inputs.  Spec runs the record   *)
(* operations, SpecMedia the media operations.                             *)

\* an editor's backup of a record file, found in the records directory
BackupName == D1 \o <<".", "j", "s", "o", "n", "~">>

\* a file of the records directory named with "_" where a record has "."
UnderscoreName == D2 \o <<"_", "j", "s", "o", "n">>

\* the configuration file, which default_manager_configuration_path puts in
\* the default records directory
ConfigName ==
    <<"a", "p", "o", "d", "m", "g", "r", ".", "c", "f", "g", ".", "j", "s", "o", "n">>

\* the default media directory, a subdirectory of the default records directory
ImagesName == <<"i", "m", "a", "g", "e", "s">>

\* a directory of files the archive did not write
Dir(names) == [n \in names |-> ForeignContent]

\* the records directories a run starts with: the default layout, alone or
\* with files the user left in it
InitialRecords ==
    {Dir({ConfigName, ImagesName}), Dir({ConfigName, ImagesName, BackupName, UnderscoreName})}

\* the date arguments of fetch_single
SingleArgs == Dates \cup {NoneS, BadDate}

\* the count arguments of fetch_random
Counts == {0, 1, 100, 101}

\* the (start_date, end_date) arguments of fetch_range
RangeArgs == {<<D1, D2>>, <<BadDate, D2>>, <<D1, BadDate>>}

\* the answer read when no request is sent
NoResponse == [ok |-> FALSE, json |-> NullS]

\* the clock values a call can read: datetime.now() is read only for a None date
Clock(dates) == IF NoneS \in dates THEN Dates ELSE {D1}

\* what a call records of the call before it when that was not the same
\* operation with the same argument
NoFirst == [same |-> FALSE, outcome |-> "ok", api |-> 0, get |-> 0, date |-> NoneS]

NoCall ==
    [op |-> "none", arg |-> NoneS, outcome |-> "ok", ret |-> NoneS, api |-> 0,
     get |-> 0, first |-> NoFirst]

\* the date of the record a call returned, None when it returned no record
ReturnedDate(call) ==
    IF call.op = "fetch_single" /\ call.outcome = "ok" THEN call.ret.date ELSE NoneS

\* what a call records of the call before it: its outcome, its requests and
\* the date it returned, when it was the same operation with the same argument
First(op, arg) ==
    IF last.op = op /\ last.arg = arg
    THEN [same |-> TRUE, outcome |-> last.outcome, api |-> last.api, get |-> last.get,
          date |-> ReturnedDate(last)]
    ELSE NoFirst

\* the two directories of the archive; validation has created both by the
\* time an operation of the archive runs
AllDirs == {"apods", "images"}

Init ==
    /\ records \in InitialRecords
    /\ media = Dir({})
    /\ dirs = AllDirs
    /\ last = NoCall

\* a call of ManagerConfiguration.fetch_single; the API's answer is drawn only
\* when the call sends a request
FetchSingle ==
    \E date \in SingleArgs :
      \E now \in Clock({date}) :
        \E resp \in IF FetchSingleResult(records, date, now, NoResponse).api = 0
                    THEN {NoResponse} ELSE SingleResponses :
            LET res == FetchSingleResult(records, date, now, resp)
            IN  /\ records' = res.records
                /\ last' = [op |-> "fetch_single", arg |-> date, outcome |-> res.outcome,
                            ret |-> res.ret, api |-> res.api, get |-> 0,
                            first |-> First("fetch_single", date)]
                /\ UNCHANGED <<media, dirs>>

\* a call of ManagerConfiguration.fetch_random
FetchRandom ==
    \E count \in Counts :
        \E resp \in IF FetchRandomResult(records, count, NoResponse).api = 0
                    THEN {NoResponse} ELSE BatchResponses :
            LET res == FetchRandomResult(records, count, resp)
            IN  /\ records' = res.records
                /\ last' = [op |-> "fetch_random", arg |-> count, outcome |-> res.outcome,
                            ret |-> res.ret, api |-> res.api, get |-> 0,
                            first |-> First("fetch_random", count)]
                /\ UNCHANGED <<media, dirs>>

\* a call of ManagerConfiguration.fetch_range
FetchRange ==
    \E args \in RangeArgs :
      \E now \in Clock({args[1], args[2]}) :
        \E resp \in IF FetchRangeResult(records, args[1], args[2], now, NoResponse).api = 0
                    THEN {NoResponse} ELSE BatchResponses :
            LET res == FetchRangeResult(records, args[1], args[2], now, resp)
            IN  /\ records' = res.records
                /\ last' = [op |-> "fetch_range", arg |-> args, outcome |-> res.outcome,
                            ret |-> res.ret, api |-> res.api, get |-> 0,
                            first |-> First("fetch_range", args)]
                /\ UNCHANGED <<media, dirs>>

\* a call of ManagerConfiguration.stored_apods, run to its end
StoredApodsCall ==
    /\ last' = [op |-> "stored_apods", arg |-> NoneS, outcome |-> "ok",
                ret |-> StoredApods(records), api |-> 0, get |-> 0,
                first |-> First("stored_apods", NoneS)]
    /\ UNCHANGED <<records, media, dirs>>

\* the date arguments of stored_apod_file
StoredFileArgs == Dates \cup {BadDate}

\* a call of ManagerConfiguration.stored_apod_file
StoredApodFileCall ==
    \E date \in StoredFileArgs :
        LET res == StoredApodFileResult(records, date)
        IN  /\ last' = [op |-> "stored_apod_file", arg |-> date, outcome |-> res.outcome,
                        ret |-> res.ret, api |-> res.api, get |-> 0,
                        first |-> First("stored_apod_file", date)]
            /\ UNCHANGED <<records, media, dirs>>

Next == FetchSingle \/ FetchRandom \/ FetchRange \/ StoredApodsCall \/ StoredApodFileCall

Spec == Init /\ [][Next]_vars

\* the media directory a run starts with: validation has just created it
InitialMedia == {Dir({})}

InitMedia ==
    /\ records \in InitialRecords
    /\ media \in InitialMedia
    /\ dirs = AllDirs
    /\ last = NoCall

\* a call of ManagerConfiguration.save_media_for; the media host's answer is
\* drawn only when the call sends the GET
SaveMediaFor ==
    \E apod \in Apods :
        \E resp \in IF SaveMediaForResult(media, apod, [ok |-> FALSE, content |-> <<>>]).get = 0
                    THEN {[ok |-> FALSE, content |-> <<>>]}
                    ELSE MediaResponses(BestUrl(apod)) :
            LET res == SaveMediaForResult(media, apod, resp)
            IN  /\ media' = res.media
                /\ last' = [op |-> "save_media_for", arg |-> apod,
                            outcome |-> res.outcome, ret |-> NoneS, api |-> 0,
                            get |-> res.get, first |-> First("save_media_for", apod)]
                /\ UNCHANGED <<records, dirs>>

\* a call of ManagerConfiguration.stored_media, run to its end
StoredMediaCall ==
    /\ last' = [op |-> "stored_media", arg |-> NoneS, outcome |-> "ok",
                ret |-> StoredMedia(records, media), api |-> 0, get |-> 0,
                first |-> First("stored_media", NoneS)]
    /\ UNCHANGED <<records, media, dirs>>

NextMedia == SaveMediaFor \/ StoredMediaCall

SpecMedia == InitMedia /\ [][NextMedia]_vars

---------------------------------------------------------------------------
(* mgrcfg.py: the configuration document and its loading *)

\* default_apods_dir() and default_apods_media_dir(), as paths under the home
\* directory
DefaultApodsDir == <<"a", "p", "o", "d", "s">>

DefaultApodsMediaDir == <<"a", "p", "o", "d", "s", "/", "i", "m", "a", "g", "e", "s">>

\* the fields of ManagerConfiguration in declaration order
ConfigFieldOrder == <<"api_key", "apods_path", "apods_media_path">>

ConfigFields == {ConfigFieldOrder[i] : i \in 1..Len(ConfigFieldOrder)}

\* the default_factory of a path field
ConfigDefault(f) == IF f = "apods_path" THEN DefaultApodsDir ELSE DefaultApodsMediaDir

\* ManagerConfiguration(**data) for data that gives api_key: no validation runs
NewConfig(data) ==
    [f \in ConfigFields |-> IF f \in DOMAIN data THEN data[f] ELSE ConfigDefault(f)]

\* json.dumps(asdict(config), indent=4): the document, as its members in order
DumpsConfig(config) ==
    [i \in 1..Len(ConfigFieldOrder) |->
        <<ConfigFieldOrder[i], ToJson(config[ConfigFieldOrder[i]])>>]

Whitespace == {" ", "\t", "\n"}

\* str.strip()
RECURSIVE Strip(_)
Strip(s) ==
    IF s = <<>> THEN s
    ELSE IF Head(s) \in Whitespace THEN Strip(Tail(s))
    ELSE IF s[Len(s)] \in Whitespace THEN Strip(SubSeq(s, 1, Len(s) - 1))
    ELSE s

\* os.mkdir(dir / name): the listing of dir gains the entry
MakeDir(dir, name) == WriteFile(dir, name, ForeignContent)

\* _validate_data creating the two directories before it tests the key
ValidateDataDirsFirst(recs, ds, config) ==
    [outcome |-> IF Strip(config.api_key) = <<>> THEN "ValueError" ELSE "ok",
     records |-> IF "images" \in ds THEN recs
                 ELSE WriteFile(recs, <<"i", "m", "a", "g", "e", "s">>, <<"<bytes>">>),
     dirs |-> ds \cup {"apods", "images"}]

\* ManagerConfiguration._validate_data for the default paths: ValueError for a
\* blank key, else the two directories are created where absent.  The media
\* directory is an entry of the records directory.
ValidateConfigData(recs, ds, config) ==
    IF Strip(config.api_key) = <<>>
    THEN [outcome |-> "ValueError", records |-> recs, dirs |-> ds]
    ELSE [outcome |-> "ok",
          records |-> IF "images" \in ds THEN recs ELSE MakeDir(recs, ImagesName),
          dirs |-> ds \cup AllDirs]

\* ManagerConfiguration.load_from(default_manager_configuration_path()) when
\* the file exists
LoadConfig(recs, ds) ==
    LET data == Loads(recs[ConfigName])
    IN  IF "api_key" \notin DOMAIN data
        THEN [outcome |-> "ValueError", records |-> recs, dirs |-> ds]
        ELSE IF ~(DOMAIN data \subseteq ConfigFields)
        THEN [outcome |-> "TypeError", records |-> recs, dirs |-> ds]
        ELSE ValidateConfigData(recs, ds, NewConfig(data))

---------------------------------------------------------------------------
(* __main__.py: the commands.  Each operator gives what a run leaves, its  *)
(* outcome ("ok" when it returns, else the exception that ends it), what   *)
(* it printed last and the requests it sent.                               *)

Prog == <<"a", "p", "o", "d", "m", "g", "r">>

CmdMkcfg == <<"m", "k", "c", "f", "g">>

CmdFetch == <<"f", "e", "t", "c", "h">>

CmdList == <<"l", "i", "s", "t">>

CmdDownload == <<"d", "o", "w", "n", "l", "o", "a", "d">>

CmdSetBg == <<"s", "e", "t", "-", "b", "g">>

\* a word that names no command
CmdOther == <<"h", "e", "l", "p">>

Today == <<"t", "o", "d", "a", "y">>

Zero == <<"0">>

One == <<"1">>

\* the answer that confirms the overwrite
AnswerY == <<"Y">>

\* a credential
Key == <<"K">>

\* whether int(string) returns: an optional sign, then digits
IsInt(string) ==
    LET body == IF string # <<>> /\ Head(string) \in {"+", "-"} THEN Tail(string)
                ELSE string
    IN  body # <<>> /\ \A i \in 1..Len(body) : body[i] \in Digits

DigitValue(c) == CHOOSE n \in 0..9 : <<"0", "1", "2", "3", "4", "5", "6", "7", "8", "9">>[n + 1] = c

RECURSIVE DigitsValue(_)
DigitsValue(body) ==
    IF body = <<>> THEN 0
    ELSE 10 * DigitsValue(SubSeq(body, 1, Len(body) - 1)) + DigitValue(body[Len(body)])

\* int(string) when it returns
IntOf(string) ==
    IF Head(string) = "-" THEN 0 - DigitsValue(Tail(string))
    ELSE IF Head(string) = "+" THEN DigitsValue(Tail(string))
    ELSE DigitsValue(string)

\* what a run of main leaves and how it ends
Ran(recs, med, ds, outcome, out, api, get) ==
    [records |-> recs, media |-> med, dirs |-> ds, outcome |-> outcome, out |-> out,
     api |-> api, get |-> get]

\* APOD.load_from(path) for the content of the file
ApodLoadFrom(text) ==
    IF text = ForeignContent THEN [outcome |-> "ValueError", apod |-> NoneS]
    ELSE NewAPOD(Loads(text))

\* fetch(config) with argv the words after the command.  A fetcher that reads
\* argv reads it when it is called, after the words were popped.
Fetch(recs, argv, now, resp) ==
    LET help == [records |-> recs, outcome |-> "ok", out |-> "fetch help", api |-> 0]
        index_error == [records |-> recs, outcome |-> "IndexError", out |-> "", api |-> 0]
        printed(res) == [records |-> res.records, outcome |-> res.outcome,
                         out |-> IF res.outcome = "ok" THEN "records" ELSE "",
                         api |-> res.api]
    IN  IF argv = <<>> THEN help
        ELSE IF Len(argv) = 1
        THEN IF APOD_DATE_FORMAT_RE(argv[1])
             THEN LET left == Tail(argv)
                  IN  IF Len(left) < 1 THEN index_error
                      ELSE printed(FetchSingleResult(recs, left[1], now, resp))
             ELSE IF IsInt(argv[1])
             THEN printed(FetchRandomResult(recs, IntOf(argv[1]), resp))
             ELSE IF argv[1] = Today
             THEN printed(FetchSingleResult(recs, NoneS, now, resp))
             ELSE help
        ELSE IF APOD_DATE_FORMAT_RE(argv[1]) /\ APOD_DATE_FORMAT_RE(argv[2])
        THEN LET left == Tail(Tail(argv))
             IN  IF Len(left) < 2 THEN index_error
                 ELSE printed(FetchRangeResult(recs, left[1], left[2], now, resp))
        ELSE help

\* list_apods(config): every name stored_apods yields is loaded and printed;
\* the first file that does not load ends the run (in the model every such
\* file raises the same exception, so the order of the listing is immaterial)
ListApods(recs) ==
    LET bad == {file \in StoredApods(recs) : ApodLoadFrom(recs[file]).outcome # "ok"}
    IN  IF bad = {}
        THEN [outcome |-> "ok", out |-> IF StoredApods(recs) = {} THEN "" ELSE "records"]
        ELSE [outcome |-> ApodLoadFrom(recs[CHOOSE file \in bad : TRUE]).outcome, out |-> ""]

\* the date a command acts on: datetime.now() formatted for "today"
DateOrToday(date, now) == IF date = Today THEN now ELSE date

\* download_media fetching the record when it is not cached
DownloadMediaFetching(recs, med, argv, now, resp, mresp) ==
    IF argv = <<>>
    THEN [records |-> recs, media |-> med, outcome |-> "ok", out |-> "download help",
          api |-> 0, get |-> 0]
    ELSE LET date == IF Head(argv) = <<"t", "o", "d", "a", "y">> THEN now ELSE Head(argv)
             got == IF (date \o <<".", "j", "s", "o", "n">>) \in DOMAIN recs
                    THEN FetchSingleResult(recs, date, now, resp)
                    ELSE FetchSingleResult(recs, <<"<None>">>, date, resp)
         IN  IF got.outcome # "ok"
             THEN [records |-> got.records, media |-> med, outcome |-> got.outcome,
                   out |-> "", api |-> got.api, get |-> 0]
             ELSE LET saved == SaveMediaForResult(med, got.ret, mresp)
                  IN  [records |-> got.records, media |-> saved.media,
                       outcome |-> saved.outcome,
                       out |-> IF saved.outcome = "ok" THEN "media path" ELSE "",
                       api |-> got.api, get |-> saved.get]

\* download_media(config) with argv the words after the command
DownloadMedia(recs, med, argv, now, resp, mresp) ==
    IF argv = <<>>
    THEN [records |-> recs, media |-> med, outcome |-> "ok", out |-> "download help",
          api |-> 0, get |-> 0]
    ELSE LET date == DateOrToday(Head(argv), now)
         IN  IF (date \o DotJson) \notin StoredApods(recs)
             THEN [records |-> recs, media |-> med, outcome |-> "ok",
                   out |-> "not fetched", api |-> 0, get |-> 0]
             ELSE LET got == FetchSingleResult(recs, date, now, resp)
                  IN  IF got.outcome # "ok"
                      THEN [records |-> got.records, media |-> med,
                            outcome |-> got.outcome, out |-> "", api |-> got.api,
                            get |-> 0]
                      ELSE LET saved == SaveMediaForResult(med, got.ret, mresp)
                           IN  [records |-> got.records, media |-> saved.media,
                                outcome |-> saved.outcome,
                                out |-> IF saved.outcome = "ok" THEN "media path" ELSE "",
                                api |-> got.api, get |-> saved.get]

\* set_background(config) with argv the words after the command.
\* ManagerConfiguration has no attribute path_for_media, and the attribute is
\* looked up before the argument of the call is evaluated.
SetBackground(recs, argv, now) ==
    IF argv = <<>> THEN [outcome |-> "ok", out |-> "download help"]
    ELSE LET found == StoredApodFileResult(recs, DateOrToday(Head(argv), now))
         IN  IF found.outcome # "ok" THEN [outcome |-> found.outcome, out |-> ""]
             ELSE IF found.ret = NoneS THEN [outcome |-> "ok", out |-> "not fetched"]
             ELSE [outcome |-> "AttributeError", out |-> ""]

\* the document mkcfg writes: ManagerConfiguration('') as JSON
MkcfgDocument == DumpsConfig(NewConfig([api_key |-> <<>>]))

\* default_manager_configuration_path().exists()
ConfigExists(recs) == ConfigName \in ListDir(recs)

\* mkcfg overwriting unless the answer is "n"
MkcfgDefaultYes(recs, med, ds, answer) ==
    IF ConfigName \in DOMAIN recs /\ answer = <<"n">>
    THEN [records |-> recs, media |-> med, dirs |-> ds, outcome |-> "ok", out |-> "",
          api |-> 0, get |-> 0]
    ELSE [records |-> WriteFile(recs, ConfigName, MkcfgDocument), media |-> med,
          dirs |-> ds \cup {"apods"}, outcome |-> "ok", out |-> "configuration created",
          api |-> 0, get |-> 0]

\* mkcfg() when the user answers the prompt, if it is shown, with answer
Mkcfg(recs, med, ds, answer) ==
    IF ConfigExists(recs) /\ answer # AnswerY
    THEN Ran(recs, med, ds, "ok", "", 0, 0)
    ELSE Ran(WriteFile(recs, ConfigName, MkcfgDocument), med, ds \cup {"apods"}, "ok",
             "configuration created", 0, 0)

\* main creating the records directory before it looks for the configuration
WithoutConfigMakingDir(recs, med, ds) ==
    [records |-> recs, media |-> med, dirs |-> ds \cup {"apods"}, outcome |-> "ok",
     out |-> "configuration not found", api |-> 0, get |-> 0]

\* main when the command is not mkcfg and the configuration file does not exist
WithoutConfig(recs, med, ds) == Ran(recs, med, ds, "ok", "configuration not found", 0, 0)

\* the commands that take the configuration
Commands == {CmdFetch, CmdList, CmdDownload, CmdSetBg}

\* main() with sys.argv = argv
MainResult(recs, med, ds, argv, answer, now, resp, mresp) ==
    IF Tail(argv) = <<>> THEN Ran(recs, med, ds, "ok", "must specify a command", 0, 0)
    ELSE LET command == argv[2]
             rest == Tail(Tail(argv))
         IN  IF command = CmdMkcfg THEN Mkcfg(recs, med, ds, answer)
             ELSE IF ~ConfigExists(recs) THEN WithoutConfig(recs, med, ds)
             ELSE LET cfg == LoadConfig(recs, ds)
                  IN  IF cfg.outcome # "ok"
                      THEN Ran(cfg.records, med, cfg.dirs, cfg.outcome, "", 0, 0)
                      ELSE IF command \notin Commands
                      THEN Ran(cfg.records, med, cfg.dirs, "ok", "valid commands", 0, 0)
                      ELSE IF command = CmdFetch
                      THEN LET r == Fetch(cfg.records, rest, now, resp)
                           IN  Ran(r.records, med, cfg.dirs, r.outcome, r.out, r.api, 0)
                      ELSE IF command = CmdList
                      THEN LET r == ListApods(cfg.records)
                           IN  Ran(cfg.records, med, cfg.dirs, r.outcome, r.out, 0, 0)
                      ELSE IF command = CmdDownload
                      THEN LET r == DownloadMedia(cfg.records, med, rest, now, resp, mresp)
                           IN  Ran(r.records, r.media, cfg.dirs, r.outcome, r.out, r.api,
                                   r.get)
                      ELSE LET r == SetBackground(cfg.records, rest, now)
                           IN  Ran(cfg.records, med, cfg.dirs, r.outcome, r.out, 0, 0)

---------------------------------------------------------------------------
(* The command line as a state machine: one action per command, a run of   *)
(* main from its start to its end, and the user's edit of the              *)
(* configuration file.  SpecCli starts before anything was created.        *)

\* what the user answers to the prompt of mkcfg
Answers == {AnswerY, <<"y">>, <<"n">>, <<>>}

\* the answer when no prompt is shown
NoAnswer == <<>>

\* the media host's answer when no GET is sent
NoMediaResponse == [ok |-> FALSE, content |-> <<>>]

\* the media host's answers to a GET: a status that is not ok, or a body
AnyMediaResponses == {NoMediaResponse, [ok |-> TRUE, content |-> <<"<image>">>]}

\* the words after the command, per command
FetchWords ==
    {<<>>, <<D1>>, <<Today>>, <<Zero>>, <<One>>, <<BadDate>>, <<D1, D2>>, <<D1, BadDate>>,
     <<D1, D2, D1, D2>>}

DateWords == {<<>>, <<D1>>, <<D2>>, <<Today>>, <<BadDate>>}

\* the configuration documents the user's edit leaves: a credential filled
\* in, a credential of white space, the api_key member removed
EditedDocuments ==
    {DumpsConfig(NewConfig([api_key |-> Key])), DumpsConfig(NewConfig([api_key |-> <<" ">>])),
     <<<<"apods_path", DefaultApodsDir>>>>}

\* whether the run shows the prompt of mkcfg
Prompts(argv) == Len(argv) >= 2 /\ argv[2] = CmdMkcfg /\ ConfigExists(records)

\* whether the run reads the clock
ReadsClock(argv) == \E i \in 1..Len(argv) : argv[i] = Today

\* the API's answers to a request for one random record
CountResponses == {NoResponse} \cup {[ok |-> TRUE, json |-> a] : a \in Arrays(1)}

\* the API's answers to a request for the range D1..D2
RangeResponses == {NoResponse} \cup {[ok |-> TRUE, json |-> a] : a \in Arrays(2)}

\* the API's answers to the request of the run: an array for a count or a
\* range, of no more members than were asked for
ApiResponses(argv) ==
    IF Len(argv) >= 3 /\ argv[2] = CmdFetch /\ argv[3] # Today
    THEN IF Len(argv) = 3 THEN CountResponses ELSE RangeResponses
    ELSE SingleResponses

\* the state a run of main leaves when it ends as res says
MainEnds(res, argv, answer, now) ==
    /\ records' = res.records
    /\ media' = res.media
    /\ dirs' = res.dirs
    /\ last' = [op |-> "main", arg |-> [argv |-> argv, answer |-> answer, now |-> now],
                outcome |-> res.outcome, ret |-> <<res.out>>, api |-> res.api,
                get |-> res.get, first |-> NoFirst]

\* a run of main with sys.argv = argv; an answer of the user, of the API or of
\* the media host is drawn only when the run asks for it
Main(argv) ==
    \E answer \in IF Prompts(argv) THEN Answers ELSE {NoAnswer} :
      \E now \in IF ReadsClock(argv) THEN Dates ELSE {D1} :
        \E resp \in IF MainResult(records, media, dirs, argv, answer, now, NoResponse,
                                  NoMediaResponse).api = 0
                    THEN {NoResponse} ELSE ApiResponses(argv) :
          \E mresp \in IF MainResult(records, media, dirs, argv, answer, now, resp,
                                     NoMediaResponse).get = 0
                       THEN {NoMediaResponse} ELSE AnyMediaResponses :
            MainEnds(MainResult(records, media, dirs, argv, answer, now, resp, mresp),
                     argv, answer, now)

RunNoCommand == Main(<<Prog>>)

RunMkcfg == Main(<<Prog, CmdMkcfg>>)

RunFetch == \E words \in FetchWords : Main(<<Prog, CmdFetch>> \o words)

RunList == Main(<<Prog, CmdList>>)

RunDownload == \E words \in DateWords : Main(<<Prog, CmdDownload>> \o words)

RunSetBg == \E words \in DateWords : Main(<<Prog, CmdSetBg>> \o words)

RunOther == Main(<<Prog, CmdOther>>)

\* the user edits the configuration file that exists
UserEditsConfig ==
    /\ ConfigExists(records)
    /\ \E document \in EditedDocuments :
        /\ records' = WriteFile(records, ConfigName, document)
        /\ last' = [NoCall EXCEPT !.op = "edit"]
    /\ UNCHANGED <<media, dirs>>

\* before the first run: nothing exists, or the records directory does, empty
\* or with a file the user left in it
InitCli ==
    /\ dirs \in {{}, {"apods"}}
    /\ records \in IF dirs = {} THEN {Dir({})} ELSE {Dir({}), Dir({BackupName})}
    /\ media = Dir({})
    /\ last = NoCall

NextCli ==
    \/ RunNoCommand
    \/ RunMkcfg
    \/ RunFetch
    \/ RunList
    \/ RunDownload
    \/ RunSetBg
    \/ RunOther
    \/ UserEditsConfig

SpecCli == InitCli /\ [][NextCli]_vars

---------------------------------------------------------------------------
(* The record on its own: a dict of keyword arguments is drawn, the record *)
(* is built from it, and the operations on a record are applied to it.    *)

\* the keyword arguments a record is built from: every required key, the
\* optional keys hdurl and copyright given or not, a url and an hdurl that
\* are a string, the empty string or None
RecordData ==
    {[f \in keys |-> full[f]] :
        keys \in {RequiredFields, RequiredFields \cup {"hdurl"},
                  RequiredFields \cup {"hdurl", "copyright"}},
        full \in [date : {D1, BadDate}, title : {Title, <<>>}, explanation : {Explanation},
                  url : {UrlJpg, <<>>, NoneS}, media_type : {Image},
                  hdurl : {UrlPng, <<>>, NoneS}, copyright : {<<"C">>}]}

InitRecord ==
    /\ records = Dir({ConfigName, ImagesName})
    /\ media = Dir({})
    /\ dirs = AllDirs
    /\ last \in {[NoCall EXCEPT !.op = "data", !.arg = data] : data \in RecordData}

\* APOD(**data)
NewApodCall ==
    /\ last.op = "data"
    /\ last' = [NoCall EXCEPT !.op = "APOD", !.arg = last.arg,
                              !.outcome = NewAPOD(last.arg).outcome,
                              !.ret = NewAPOD(last.arg).apod]
    /\ UNCHANGED <<records, media, dirs>>

\* apod.best_url on the record just built
BestUrlCall ==
    /\ last.op = "APOD"
    /\ last.outcome = "ok"
    /\ last' = [NoCall EXCEPT !.op = "best_url", !.arg = last.ret, !.ret = BestUrl(last.ret)]
    /\ UNCHANGED <<records, media, dirs>>

\* config.store_apod(apod) on the record just built
StoreApodCall ==
    /\ last.op = "APOD"
    /\ last.outcome = "ok"
    /\ records' = StoreApod(records, last.ret)
    /\ last' = [NoCall EXCEPT !.op = "store_apod", !.arg = last.ret, !.ret = last.ret]
    /\ UNCHANGED <<media, dirs>>

\* APOD.load_from on the file of the record just stored
LoadFromCall ==
    /\ last.op = "store_apod"
    /\ LET new == ApodLoadFrom(records[last.arg.date \o DotJson])
       IN  last' = [NoCall EXCEPT !.op = "load_from", !.arg = last.arg.date \o DotJson,
                                  !.outcome = new.outcome, !.ret = new.apod]
    /\ UNCHANGED <<records, media, dirs>>

\* config.fetch_single(apod.date) for the record just stored
FetchStoredCall ==
    /\ last.op = "store_apod"
    /\ LET res == FetchSingleResult(records, last.arg.date, D1, NoResponse)
       IN  /\ records' = res.records
           /\ last' = [NoCall EXCEPT !.op = "fetch_single", !.arg = last.arg.date,
                                     !.outcome = res.outcome, !.ret = res.ret,
                                     !.api = res.api]
    /\ UNCHANGED <<media, dirs>>

NextRecord == NewApodCall \/ BestUrlCall \/ StoreApodCall \/ LoadFromCall \/ FetchStoredCall

SpecRecord == InitRecord /\ [][NextRecord]_vars

---------------------------------------------------------------------------
(* Properties *)

\* the name of the record file of a date
RecordFile(d) == d \o <<".", "j", "s", "o", "n">>

\* exactly YYYY-MM-DD
CanonicalDate(s) ==
    /\ Len(s) = 10
    /\ \A i \in {1, 2, 3, 4, 6, 7, 9, 10} : s[i] \in Digits
    /\ s[5] = "-" /\ s[8] = "-"

\* exactly {date}.json
CanonicalRecordName(f) ==
    /\ Len(f) = 15
    /\ CanonicalDate(SubSeq(f, 1, 10))
    /\ SubSeq(f, 11, 15) = <<".", "j", "s", "o", "n">>

\* exactly {date}.jpg, {date}.png or {date}.mp4
CanonicalMediaName(f) ==
    /\ Len(f) = 14
    /\ CanonicalDate(SubSeq(f, 1, 10))
    /\ SubSeq(f, 11, 14) \in
          {<<".", "j", "p", "g">>, <<".", "p", "n", "g">>, <<".", "m", "p", "4">>}

\* the last position of a returned list that holds a record of the date of
\* position i
LastOfDate(apods, i) ==
    CHOOSE j \in 1..Len(apods) :
        /\ apods[j].date = apods[i].date
        /\ \A k \in 1..Len(apods) : apods[k].date = apods[i].date => k <= j

\* C1: when fetch_single(d), d a canonical date, found no record file of d,
\* sent its one request and got the record of d, then the fetch_single(d)
\* that follows it sends no request (one request in the two calls), d.json is
\* in the records directory and holds what the second call returns, a record
\* of date d.
C1_SecondCallServedFromFile ==
    \A d \in Dates :
        ( /\ last.op = "fetch_single"
          /\ last.arg = d
          /\ last.first.same
          /\ last.first.outcome = "ok"
          /\ last.first.api = 1
          /\ last.first.date = d )
        => /\ last.api = 0
           /\ last.first.api + last.api = 1
           /\ last.outcome = "ok"
           /\ last.ret.date = d
           /\ RecordFile(d) \in DOMAIN records
           /\ records[RecordFile(d)] = Dumps(last.ret)

\* C1 happens: a second fetch_single(D1) answered from the file the first wrote
C1_Witness ==
    /\ last.op = "fetch_single"
    /\ last.arg = D1
    /\ last.first.same
    /\ last.first.outcome = "ok"
    /\ last.first.api = 1
    /\ last.first.date = D1
    /\ last.api = 0
    /\ last.ret.date = D1

\* C2: a fetch_single(d) with d not None that finds d.json in the records
\* directory sends no request, returns the record that file holds, and leaves
\* the records directory and the media directory as they were.
C2_CacheHitReadsOnly ==
    [][ ( /\ last'.op = "fetch_single"
          /\ last'.arg # NoneS
          /\ RecordFile(last'.arg) \in DOMAIN records )
        => /\ last'.api = 0
           /\ last'.outcome = "ok"
           /\ Dumps(last'.ret) = records[RecordFile(last'.arg)]
           /\ records' = records
           /\ media' = media ]_vars

\* C2 happens: a fetch_single(D2) that follows another call is answered from
\* D2.json
C2_Witness ==
    /\ last.op = "fetch_single"
    /\ last.arg = D2
    /\ ~last.first.same
    /\ last.api = 0
    /\ last.outcome = "ok"
    /\ RecordFile(D2) \in DOMAIN records
    /\ Dumps(last.ret) = records[RecordFile(D2)]

\* C3: fetch_single(None) sends one request on every call, whatever the
\* records directory holds, and when it succeeds the file of the returned
\* record's date holds the returned record, whatever it held before.
C3_TodayAlwaysFetched ==
    (last.op = "fetch_single" /\ last.arg = NoneS)
    => /\ last.api = 1
       /\ last.outcome = "ok" =>
            /\ RecordFile(last.ret.date) \in DOMAIN records
            /\ records[RecordFile(last.ret.date)] = Dumps(last.ret)

\* C3 happens: two fetch_single(None) in a row, both sending a request and both
\* returning a record of D1, the second one another record than the file held
C3_Witness ==
    /\ last.op = "fetch_single"
    /\ last.arg = NoneS
    /\ last.first.same
    /\ last.first.api = 1
    /\ last.first.date = D1
    /\ last.api = 1
    /\ last.outcome = "ok"
    /\ last.ret.date = D1
    /\ last.ret.hdurl = NoneS

\* C4 as stated: two save_media_for calls in a row for the same record send at
\* most one GET and leave the file {date}.{extension} in the media directory.
C4_TwoCallsLeaveTheFile ==
    (last.op = "save_media_for" /\ last.first.same)
    => /\ last.first.get + last.get <= 1
       /\ MediaFileName(last.arg) \in DOMAIN media

\* C4 amended: when save_media_for returned normally, the save_media_for for
\* the same record that follows it sends no GET and returns normally, the two
\* calls sent at most one GET, and the file {date}.{extension} is in the media
\* directory.
C4_RepeatAfterSuccessIsNoOp ==
    (last.op = "save_media_for" /\ last.first.same /\ last.first.outcome = "ok")
    => /\ last.get = 0
       /\ last.outcome = "ok"
       /\ last.first.get + last.get <= 1
       /\ MediaFileName(last.arg) \in DOMAIN media

\* C4 happens: an image downloaded by one call and the call repeated
C4_Witness ==
    /\ last.op = "save_media_for"
    /\ last.first.same
    /\ last.first.outcome = "ok"
    /\ last.first.get = 1
    /\ last.get = 0
    /\ MediaFileName(last.arg) \in DOMAIN media

\* C5 as stated: save_media_for on a record that is not an image raises
\* TypeError and sends no GET, in every state.
C5_VideoAlwaysRaises ==
    (last.op = "save_media_for" /\ last.arg.media_type # <<"i", "m", "a", "g", "e">>)
    => last.outcome = "TypeError" /\ last.get = 0

\* C5 amended: save_media_for on a record that is not an image sends no GET and
\* leaves the media directory as it was; it raises TypeError when the media
\* directory holds no file {date}.{extension} of the record, and returns
\* normally when it holds one.
C5_VideoNeverDownloaded ==
    [][ (last'.op = "save_media_for" /\ last'.arg.media_type # <<"i", "m", "a", "g", "e">>)
        => /\ last'.get = 0
           /\ media' = media
           /\ last'.outcome =
                IF MediaFileName(last'.arg) \in DOMAIN media THEN "ok" ELSE "TypeError"
      ]_vars

\* C5 happens: a video refused
C5_Witness ==
    /\ last.op = "save_media_for"
    /\ last.arg.media_type = <<"v", "i", "d", "e", "o">>
    /\ last.outcome = "TypeError"
    /\ last.get = 0
    /\ MediaFileName(last.arg) \notin DOMAIN media

\* C6: fetch_random(count) with count < 1 or count > 100 raises ValueError,
\* sends no request and leaves the records directory as it was; with
\* 1 <= count <= 100 it sends the request.
C6_CountValidatedBeforeRequest ==
    [][ last'.op = "fetch_random"
        => /\ (last'.arg < 1 \/ last'.arg > 100)
                => /\ last'.outcome = "ValueError"
                   /\ last'.api = 0
                   /\ records' = records
           /\ (1 <= last'.arg /\ last'.arg <= 100) => last'.api = 1
      ]_vars

\* C6 happens: count = 101 refused while the records directory holds a record
\* that an earlier fetch stored
C6_Witness ==
    /\ last.op = "fetch_random"
    /\ last.arg = 101
    /\ last.outcome = "ValueError"
    /\ last.api = 0
    /\ RecordFile(D1) \in DOMAIN records

\* C7: fetch_random and fetch_range with arguments they accept send one request
\* whatever the records directory holds, and when they succeed the file
\* {date}.json of every returned record holds the last returned record of
\* that date.
C7_BatchFetchedAndStored ==
    /\ (last.op = "fetch_random" /\ 1 <= last.arg /\ last.arg <= 100) => last.api = 1
    /\ ( /\ last.op = "fetch_range"
         /\ APOD_DATE_FORMAT_RE(last.arg[1])
         /\ APOD_DATE_FORMAT_RE(last.arg[2]) ) => last.api = 1
    /\ (last.op \in {"fetch_random", "fetch_range"} /\ last.outcome = "ok")
       => \A i \in 1..Len(last.ret) :
            /\ RecordFile(last.ret[i].date) \in DOMAIN records
            /\ records[RecordFile(last.ret[i].date)] =
                  Dumps(last.ret[LastOfDate(last.ret, i)])

\* C7 happens: a range fetch repeated, its answer holding two different
\* records of one date
C7_Witness ==
    /\ last.op = "fetch_range"
    /\ last.first.same
    /\ last.first.outcome = "ok"
    /\ last.outcome = "ok"
    /\ Len(last.ret) = 2
    /\ last.ret[1].date = last.ret[2].date
    /\ last.ret[1] # last.ret[2]

\* C8: a fetch_random or fetch_range that raises, for a status that is not ok
\* or for a response member that is no valid record, leaves the records
\* directory as it was.
C8_FailedBatchStoresNothing ==
    [][ (last'.op \in {"fetch_random", "fetch_range"} /\ last'.outcome # "ok")
        => records' = records ]_vars

\* C8 happens: a range fetch whose request was sent and that raised
\* ValueError for a member of the response
C8_Witness ==
    /\ last.op = "fetch_range"
    /\ last.api = 1
    /\ last.outcome = "ValueError"

\* C9 as stated: stored_media yields exactly the names of the media directory
\* of the form {date}.{jpg|png|mp4}.
C9_StoredMediaListsMediaDir ==
    last.op = "stored_media"
    => last.ret = {f \in DOMAIN media : CanonicalMediaName(f)}

\* C10 as stated: stored_apods yields exactly the names of the records
\* directory of the form {date}.json.
C10_StoredApodsCanonicalOnly ==
    last.op = "stored_apods"
    => last.ret = {f \in DOMAIN records : CanonicalRecordName(f)}

\* C11 as stated: stored_apod_file(date) returns {date}.json when a file of
\* exactly that name is in the records directory and None otherwise, for
\* every date.
C11_AlwaysReturnsNameOrNone ==
    last.op = "stored_apod_file"
    => /\ last.outcome = "ok"
       /\ last.ret = IF RecordFile(last.arg) \in DOMAIN records
                     THEN RecordFile(last.arg) ELSE NoneS

\* C11 amended: stored_apod_file(date) sends no request and leaves both
\* directories as they were; for a date the date pattern accepts it returns
\* {date}.json when a file of exactly that name is in the records directory
\* and None otherwise, and for a date the pattern rejects it raises
\* ValueError.
C11_LookupByExactName ==
    [][ last'.op = "stored_apod_file"
        => /\ records' = records
           /\ media' = media
           /\ dirs' = dirs
           /\ last'.api = 0
           /\ last'.get = 0
           /\ IF APOD_DATE_FORMAT_RE(last'.arg)
              THEN /\ last'.outcome = "ok"
                   /\ last'.ret = IF RecordFile(last'.arg) \in DOMAIN records
                                  THEN RecordFile(last'.arg) ELSE NoneS
              ELSE last'.outcome = "ValueError"
      ]_vars

\* C11 happens: no D1.json beside the backup file D1.json~, and
\* stored_apod_file(D1) returns None
C11_Witness ==
    /\ last.op = "stored_apod_file"
    /\ last.arg = D1
    /\ last.outcome = "ok"
    /\ last.ret = NoneS
    /\ BackupName \in DOMAIN records
    /\ RecordFile(D1) \notin DOMAIN records

\* C12: a run of main whose command is not mkcfg (fetch, list, download,
\* set-bg or a word that names no command), started when the configuration
\* file does not exist, returns after the "not found" message: it sends no
\* request and leaves the records directory, the media directory and the set
\* of existing directories as they were.
C12_NoConfigNoAction ==
    [][ ( /\ last'.op = "main"
          /\ Len(last'.arg.argv) >= 2
          /\ last'.arg.argv[2] # CmdMkcfg
          /\ ConfigName \notin DOMAIN records )
        => /\ last'.outcome = "ok"
           /\ last'.ret = <<"configuration not found">>
           /\ last'.api = 0
           /\ last'.get = 0
           /\ records' = records
           /\ media' = media
           /\ dirs' = dirs ]_vars

\* C12 happens: "fetch today" run when not even the records directory exists
C12_Witness ==
    /\ last.op = "main"
    /\ last.arg.argv = <<Prog, CmdFetch, Today>>
    /\ last.ret = <<"configuration not found">>
    /\ ConfigName \notin DOMAIN records
    /\ dirs = {}

\* C13: a run of mkcfg that finds the configuration file and is answered
\* anything other than "Y" leaves the file, and everything else, as it was; a
\* run that finds no configuration file, or is answered "Y", leaves the file
\* holding the default configuration.  So mkcfg changes the file only when it
\* was absent or the overwrite was confirmed.
C13_OverwriteNeedsConfirmation ==
    [][ (last'.op = "main" /\ last'.arg.argv = <<Prog, CmdMkcfg>>)
        => /\ (ConfigName \in DOMAIN records /\ last'.arg.answer # <<"Y">>)
                => /\ records' = records
                   /\ media' = media
                   /\ dirs' = dirs
           /\ (ConfigName \notin DOMAIN records \/ last'.arg.answer = <<"Y">>)
                => /\ ConfigName \in DOMAIN records'
                   /\ records'[ConfigName] = DumpsConfig(NewConfig([api_key |-> <<>>]))
           /\ records' # records
                => (ConfigName \notin DOMAIN records \/ last'.arg.answer = <<"Y">>)
      ]_vars

\* C13 happens: the user has filled in the credential, runs mkcfg again and
\* answers "n": the file still holds the credential
C13_Witness ==
    /\ last.op = "main"
    /\ last.arg.argv = <<Prog, CmdMkcfg>>
    /\ last.arg.answer = <<"n">>
    /\ ConfigName \in DOMAIN records
    /\ records[ConfigName] = DumpsConfig(NewConfig([api_key |-> Key]))

\* C14 as stated: best_url of a record that passed validation is its hdurl
\* when hdurl is present, its url otherwise, and is never None.
C14_BestUrlNeverNull ==
    last.op = "best_url"
    => /\ last.ret = IF last.arg.hdurl # NoneS THEN last.arg.hdurl ELSE last.arg.url
       /\ last.ret # NoneS

\* C15 as stated: every run of main returns normally, whatever the core
\* operation it invoked did: no run ends with an exception.
C15_NoUncaughtError == last.op = "main" => last.outcome = "ok"

\* C16: when store_apod has stored a valid record r, APOD.load_from on the
\* file {r.date}.json, and likewise fetch_single(r.date), which sends no
\* request, returns a record that equals r under date-based equality and
\* whose every field, the optional fields that are None included, has the
\* value it has in r.
C16_RoundTrip ==
    [][ (last.op = "store_apod" /\ last'.op \in {"load_from", "fetch_single"})
        => /\ last'.outcome = "ok"
           /\ last'.api = 0
           /\ ApodEq(last'.ret, last.arg)
           /\ \A f \in Fields : last'.ret[f] = last.arg[f]
      ]_vars

\* C16 happens: a record built without the hdurl key was stored and loaded
\* back, its hdurl None and its copyright None
C16_Witness ==
    /\ last.op = "load_from"
    /\ last.outcome = "ok"
    /\ last.arg = RecordFile(D1)
    /\ last.ret.url = UrlJpg
    /\ last.ret.hdurl = NoneS
    /\ last.ret.copyright = NoneS
    /\ records[RecordFile(D1)] = Dumps(last.ret)

\* C17: a run of download, for every date word ("today" included, which
\* stands for the clock's date), sends no request to the record API and
\* writes no file of the records directory (the one entry the directory can
\* gain is the media directory, which the load of the configuration creates);
\* when {date}.json is not in the records directory the run sends no GET
\* either and leaves the media directory as it was; otherwise it sends at
\* most the one media GET.  A run of list or of set-bg sends no request at
\* all and writes no file.
C17_DownloadNeverFetchesRecord ==
    [][ (last'.op = "main" /\ Len(last'.arg.argv) >= 2)
        => /\ last'.arg.argv[2] = CmdDownload
                => /\ last'.api = 0
                   /\ last'.get <= 1
                   /\ DOMAIN records' \subseteq (DOMAIN records) \cup {ImagesName}
                   /\ \A n \in DOMAIN records : records'[n] = records[n]
                   /\ ( \/ Len(last'.arg.argv) = 2
                        \/ RecordFile(DateOrToday(last'.arg.argv[3], last'.arg.now))
                              \notin DOMAIN records )
                        => /\ last'.get = 0
                           /\ media' = media
           /\ last'.arg.argv[2] \in {CmdList, CmdSetBg}
                => /\ last'.api = 0
                   /\ last'.get = 0
                   /\ media' = media
                   /\ DOMAIN records' \subseteq (DOMAIN records) \cup {ImagesName}
                   /\ \A n \in DOMAIN records : records'[n] = records[n]
      ]_vars

\* C17 happens: "download today" on a day whose record is cached fetched
\* the media with one GET and no request to the record API
C17_Witness ==
    /\ last.op = "main"
    /\ last.arg.argv = <<Prog, CmdDownload, Today>>
    /\ last.arg.now = D1
    /\ last.outcome = "ok"
    /\ last.api = 0
    /\ last.get = 1
    /\ RecordFile(D1) \in DOMAIN records
    /\ DOMAIN media # {}

\* C18: the configuration file mkcfg writes has a blank api_key; and every
\* run of fetch, list, download or set-bg that starts while the configuration
\* file holds what mkcfg wrote (as it does as long as only mkcfg has written
\* it) ends with the ValueError of the configuration load, having sent no
\* request and left the records directory, the media directory and the set
\* of existing directories as they were.
C18_MkcfgConfigurationRejected ==
    [][ (last'.op = "main" /\ Len(last'.arg.argv) >= 2)
        => /\ ( /\ last'.arg.argv[2] = CmdMkcfg
                /\ ConfigName \notin DOMAIN records \/ last'.arg.answer = <<"Y">> )
                => Loads(records'[ConfigName]).api_key = <<>>
           /\ ( /\ last'.arg.argv[2] \in {CmdFetch, CmdList, CmdDownload, CmdSetBg}
                /\ ConfigName \in DOMAIN records
                /\ records[ConfigName] = DumpsConfig(NewConfig([api_key |-> <<>>])) )
                => /\ last'.outcome = "ValueError"
                   /\ last'.api = 0
                   /\ last'.get = 0
                   /\ records' = records
                   /\ media' = media
                   /\ dirs' = dirs
      ]_vars

\* C18 happens: mkcfg created the configuration, nobody edited it, and
\* "fetch today" ended with ValueError before the media directory existed
C18_Witness ==
    /\ last.op = "main"
    /\ last.arg.argv = <<Prog, CmdFetch, Today>>
    /\ last.outcome = "ValueError"
    /\ last.api = 0
    /\ ConfigName \in DOMAIN records
    /\ records[ConfigName] = MkcfgDocument
    /\ "images" \notin dirs

\* C19: every file of the records directory that a fetch wrote is named
\* {date}.json for the date of the record it holds, whatever date was asked
\* for; and a fetch_single(d) answered from the records directory returns a
\* record of date d.
C19_FileNamedAfterItsRecord ==
    /\ \A f \in DOMAIN records :
            records[f] # ForeignContent => f = RecordFile(Loads(records[f]).date)
    /\ ( /\ last.op = "fetch_single"
         /\ last.arg # NoneS
         /\ last.api = 0
         /\ last.outcome = "ok" ) => last.ret.date = last.arg

\* C19 happens: fetch_single(D1) was answered with the record of D2, which
\* was stored as D2.json, and no D1.json was written
C19_Witness ==
    /\ last.op = "fetch_single"
    /\ last.arg = D1
    /\ last.api = 1
    /\ last.outcome = "ok"
    /\ last.ret.date = D2
    /\ RecordFile(D2) \in DOMAIN records
    /\ records[RecordFile(D2)] = Dumps(last.ret)
    /\ RecordFile(D1) \notin DOMAIN records

=============================================================================
